---- MODULE Spec2Model ----
(***************************************************************************)
(* A model of trickkiste/base_tui_app.py: the RichLogHandler adapter that  *)
(* renders logging records into a textual RichLog, the LockingRichLog      *)
(* auto-scroll flag, and the TuiBaseApp life cycle (on_mount, execute,     *)
(* set_log_levels).                                                        *)
(*                                                                         *)
(* Strings are sequences of tokens:                                        *)
(*   "x"  an ordinary character                                            *)
(*   "B"  a backslash                                                      *)
(*   "T"  a bracket sequence rich reads as a markup tag, e.g. [red]        *)
(*   "P"  a positional placeholder %s        (only in a record's msg)      *)
(*   "N"  a named placeholder %(k)s          (only in a record's msg)      *)
(*   "F"  a tag of the format string itself, e.g. [bold white] or [/]      *)
(***************************************************************************)
EXTENDS Integers, Sequences, FiniteSets, TLC

VARIABLES
    show,           \* the six constructor toggles (self._logger_show_*)
    hooks,          \* which optional hooks the subclass defines
    pc,             \* position of the UI thread in execute / on_mount
    root_handlers,  \* logging.getLogger().handlers
    handler,        \* the RichLogHandler built by on_mount
    log_level,      \* self._log_level
    registry,       \* thresholds held by the logging module
    requested,      \* thresholds last requested through TuiBaseApp.set_log_levels
    scrollback,     \* lines written to the LockingRichLog
    emitted,        \* history of records handed to the logging module
    auto_scroll,    \* LockingRichLog.auto_scroll
    scroll_y,       \* vertical scroll offset of the LockingRichLog
    last_scroll,    \* TRUE when the latest step was a ScrollTo event
    init_calls,     \* number of times initialize() ran
    cleanup_calls   \* number of times cleanup() ran

vars == <<show, hooks, pc, root_handlers, handler, log_level, registry, requested,
          scrollback, emitted, auto_scroll, scroll_y, last_scroll, init_calls,
          cleanup_calls>>

--------------------------------------------------------------------------
(* Bounds of the model *)

MaxRecords == 2
MaxStrLen == 1
WidgetHeight == 1

--------------------------------------------------------------------------
(* Severity levels of the logging module *)

DEBUG == 10
INFO == 20
WARNING == 30
ERROR == 40

Levels == {DEBUG, INFO, WARNING, ERROR}

(* "app" stands for the loggers the application shows, "lib" for every other
   (third-party) logger. *)
Loggers == {"app", "lib"}

--------------------------------------------------------------------------
(* rich.markup *)

RECURSIVE Repeat(_, _)
Repeat(tok, n) == IF n <= 0 THEN <<>> ELSE <<tok>> \o Repeat(tok, n - 1)

(* rich.markup.escape: every tag together with the backslashes before it is rewritten
   so that a tag preceded by n backslashes comes out preceded by 2n+1; everything
   else is copied. `run` counts the backslashes immediately before position i. *)
RECURSIVE EscapeFrom(_, _, _)
EscapeFrom(s, i, run) ==
    IF i > Len(s) THEN <<>>
    ELSE IF s[i] = "B" THEN <<"B">> \o EscapeFrom(s, i + 1, run + 1)
    ELSE IF s[i] = "T" THEN Repeat("B", run) \o <<"B", "T">> \o EscapeFrom(s, i + 1, 0)
    ELSE <<s[i]>> \o EscapeFrom(s, i + 1, 0)

markup_escape(s) == EscapeFrom(s, 1, 0)

(* rich.markup.render: a tag preceded by an even number of backslashes is a styling
   directive, one preceded by an odd number is literal text. TRUE when a tag that
   came from user text ("T") is read as a directive. *)
RECURSIVE UserDirectiveFrom(_, _, _)
UserDirectiveFrom(s, i, run) ==
    IF i > Len(s) THEN FALSE
    ELSE IF s[i] = "B" THEN UserDirectiveFrom(s, i + 1, run + 1)
    ELSE IF s[i] = "T" THEN (run % 2 = 0) \/ UserDirectiveFrom(s, i + 1, 0)
    ELSE UserDirectiveFrom(s, i + 1, 0)

HasUserDirective(s) == UserDirectiveFrom(s, 1, 0)

--------------------------------------------------------------------------
(* Values, arguments and records *)

Str(v) == [t |-> "str", v |-> v]
Int7 == [t |-> "int", v |-> <<"x">>]
Obj == [t |-> "obj", v |-> <<"x">>]

NoArgs == [kind |-> "none", keys |-> <<>>, items |-> <<>>]
TupleArgs(items) == [kind |-> "tuple", keys |-> <<>>, items |-> items]
MappingArgs(keys, items) == [kind |-> "mapping", keys |-> keys, items |-> items]

Record(name, levelno, msg, args) ==
    [name |-> name, levelno |-> levelno, msg |-> msg, args |-> args, attrs |-> {}]

(* emit, lines 47-49: record.args and tuple(escape(arg) if isinstance(arg, str) else
   arg for arg in record.args). Falsy args (None, empty) are kept. Iterating a mapping
   yields its keys, so a mapping becomes the tuple of its (escaped) keys. *)
EscapeValue(a) == IF a.t = "str" THEN Str(markup_escape(a.v)) ELSE a

EscapeArgs(args) ==
    IF args.kind = "none" THEN args
    ELSE IF args.kind = "tuple"
         THEN TupleArgs([i \in 1..Len(args.items) |-> EscapeValue(args.items[i])])
    ELSE TupleArgs([i \in 1..Len(args.keys) |-> EscapeValue(args.keys[i])])

(* logging.LogRecord.getMessage: msg % args when args is truthy. A tuple needs one
   positional placeholder per item and no named one ("format requires a mapping"); a
   mapping serves named placeholders. *)
Count(s, tok) == Cardinality({i \in 1..Len(s) : s[i] = tok})

FormatOK(msg, args) ==
    CASE args.kind = "none" -> TRUE
      [] args.kind = "tuple" -> Count(msg, "N") = 0 /\ Count(msg, "P") = Len(args.items)
      [] OTHER -> Count(msg, "P") = 0

RECURSIVE Subst(_, _, _, _)
Subst(msg, args, i, k) ==
    IF i > Len(msg) THEN <<>>
    ELSE IF args.kind = "tuple" /\ msg[i] = "P"
         THEN args.items[k].v \o Subst(msg, args, i + 1, k + 1)
    ELSE IF args.kind = "mapping" /\ msg[i] = "N"
         THEN args.items[1].v \o Subst(msg, args, i + 1, k)
    ELSE <<msg[i]>> \o Subst(msg, args, i + 1, k)

getMessage(rec) == Subst(rec.msg.v, rec.args, 1, 1)

--------------------------------------------------------------------------
(* The record filters of logging_helper, in the words of the specification: the
   call-stack filter attaches `callstack`, the thread-id filter attaches `posixTID`,
   the markup filter re-escapes msg and string args, the name filter normalises the
   logger name. Every filter lets the record pass. `raised` marks an exception. *)

FilterNames == <<"callstack_filter", "thread_id_filter", "markup_escape_filter",
                 "logger_name_filter">>

Passed(rec) == [rec |-> rec, raised |-> FALSE]
Raised(rec) == [rec |-> rec, raised |-> TRUE]

callstack_filter(rec) == Passed([rec EXCEPT !.attrs = @ \cup {"callstack"}])

thread_id_filter(rec) == Passed([rec EXCEPT !.attrs = @ \cup {"posixTID"}])

markup_escape_filter(rec) ==
    IF rec.msg.t # "str" THEN Raised([rec EXCEPT !.args = EscapeArgs(@)])
    ELSE Passed([rec EXCEPT !.args = EscapeArgs(@), !.msg = Str(markup_escape(@.v))])

logger_name_filter(rec) == Passed([rec EXCEPT !.attrs = @ \cup {"short_name"}])

ApplyFilter(f, rec) ==
    CASE f = "callstack_filter" -> callstack_filter(rec)
      [] f = "thread_id_filter" -> thread_id_filter(rec)
      [] f = "markup_escape_filter" -> markup_escape_filter(rec)
      [] OTHER -> logger_name_filter(rec)

(* logging.Filterer.filter: the filters run in the order they were added. *)
RECURSIVE RunFilters(_, _, _)
RunFilters(filters, i, rec) ==
    IF i > Len(filters) THEN Passed(rec)
    ELSE LET r == ApplyFilter(filters[i], rec)
         IN  IF r.raised THEN r ELSE RunFilters(filters, i + 1, r.rec)

--------------------------------------------------------------------------
(* Formatting *)

(* The attribute a format field reads from the record, for the fields that only a
   filter provides. *)
NeedsAttr(field) ==
    CASE field = "callstack" -> {"callstack"}
      [] field = "posixTID" -> {"posixTID"}
      [] OTHER -> {}

FieldsAvailable(fields, rec) ==
    \A i \in 1..Len(fields) : NeedsAttr(fields[i]) \subseteq rec.attrs

(* A handler without a formatter uses logging's default, the bare message. *)
DefaultFormat == <<"rawmessage">>

(* The markup of the message field: [bold white]%(message)s[/] in the format of
   on_mount, %(message)s alone in the default format. *)
MessageMarkup(fields, message) ==
    IF \E i \in 1..Len(fields) : fields[i] = "message"
    THEN <<"F">> \o message \o <<"F">>
    ELSE message

(* rich.logging.RichHandler.render: the columns of the rendered line. *)
Columns(h) ==
    (IF h.show_time THEN <<"time">> ELSE <<>>)
    \o (IF h.show_level THEN <<"level">> ELSE <<>>)
    \o <<"message">>
    \o (IF h.show_path THEN <<"path">> ELSE <<>>)


--------------------------------------------------------------------------
(* RichLogHandler *)

(* RichLogHandler.__init__: RichHandler(show_path=False, markup=True, show_time=False,
   level=level) with level defaulting to INFO. show_level is not passed and keeps
   RichHandler's default, True. A new handler has no filters and no formatter. *)
RichLogHandler(level) ==
    [level |-> level, filters |-> <<>>, formatter |-> <<>>,
     show_time |-> FALSE, show_level |-> TRUE, show_path |-> FALSE]

Formatter(h) == IF h.formatter = <<>> THEN DefaultFormat ELSE h.formatter

(* The line a record becomes: the format and filters it went through, the rendered
   columns and the markup of its message. src is the position of the record among the
   emitted ones, filled in when the line is written. *)
Line(h, rec) ==
    [src |-> 0,
     fmt |-> Formatter(h),
     passed |-> h.filters,
     columns |-> Columns(h),
     markup |-> MessageMarkup(Formatter(h), getMessage(rec))]

(* What became of a record: written, dropped below a threshold, or an exception;
   the args the record carried when its processing ended; the line, if one. *)
Outcome(what, rec, line) == [outcome |-> what, args |-> rec.args, line |-> line]

(* RichLogHandler.emit on a record that passed the handler's filters: escape the
   args, escape msg (a TypeError when msg is no string), format (a TypeError when
   msg % args fails, a ValueError when a field is missing on the record), write.
   Nothing in emit catches an exception. *)
emit(h, rec) ==
    LET escaped == [rec EXCEPT !.args = EscapeArgs(@)]
    IN  IF rec.msg.t # "str" THEN Outcome("type_error", escaped, <<>>)
        ELSE LET r == [escaped EXCEPT !.msg = Str(markup_escape(@.v))]
             IN  IF ~FormatOK(r.msg.v, r.args) THEN Outcome("type_error", r, <<>>)
                 ELSE IF ~FieldsAvailable(Formatter(h), r)
                      THEN Outcome("missing_field", r, <<>>)
                 ELSE Outcome("written", r, <<Line(h, r)>>)

(* logging.Handler.handle: the filters first, then emit. *)
handle(h, rec) ==
    LET f == RunFilters(h.filters, 1, rec)
    IN  IF f.raised THEN Outcome("type_error", f.rec, <<>>) ELSE emit(h, f.rec)

(* logging.Logger.log: the logger's threshold, then every handler of the root logger
   whose level the record reaches. Only the RichLogHandler is modelled. *)
Dispatch(levels, handlers, h, rec) ==
    IF rec.levelno < levels[rec.name] THEN Outcome("below_logger", rec, <<>>)
    ELSE IF \A i \in 1..Len(handlers) : handlers[i] # "richlog"
         THEN Outcome("no_adapter", rec, <<>>)
    ELSE IF rec.levelno < h.level THEN Outcome("below_handler", rec, <<>>)
    ELSE handle(h, rec)

--------------------------------------------------------------------------
(* LockingRichLog *)

(* Widget.max_scroll_y for n lines in a widget WidgetHeight lines high. *)
max_scroll_y(n) == IF n > WidgetHeight THEN n - WidgetHeight ELSE 0

is_vertical_scroll_end == scroll_y = max_scroll_y(Len(scrollback))

Clamp(y, n) == IF y > max_scroll_y(n) THEN max_scroll_y(n) ELSE y

--------------------------------------------------------------------------
(* TuiBaseApp *)

(* on_mount, lines 107-122: the fields of the format string. *)
opt_time == IF show.time THEN <<"asctime">> ELSE <<>>

opt_name == IF show.name THEN <<"name">> ELSE <<>>

opt_funcname == IF show.funcname THEN <<"funcName">> ELSE <<>>

(* The call-stack field put into the format whatever the toggle says. *)
opt_callstack_always == <<"callstack">>

opt_callstack == IF show.callstack THEN <<"callstack">> ELSE <<>>

opt_tid == IF show.tid THEN <<"posixTID">> ELSE <<>>

LogFormat ==
    <<"asctime">> \o opt_time \o opt_tid \o opt_name \o opt_funcname \o opt_callstack
    \o <<"message">>

(* The filters on_mount installs, in the order of its addFilter calls. *)
InstalledFilters ==
    (IF show.callstack THEN <<"callstack_filter">> ELSE <<>>)
    \o (IF show.tid THEN <<"thread_id_filter">> ELSE <<>>)
    \o <<"markup_escape_filter", "logger_name_filter">>

(* logging_helper.set_log_levels(levels..., others_level): the shown loggers get the
   given level, every other logger others_level. *)
set_log_levels(levels, others_level) ==
    [l \in Loggers |-> IF l = "app" THEN levels[1] ELSE others_level]

(* The thresholds of the logging module before anything configured them: the root
   logger's WARNING, inherited by every logger. *)
UnconfiguredLevels == [l \in Loggers |-> WARNING]

--------------------------------------------------------------------------
(* Initial states: the application object after __init__, before execute. *)

Toggles == [level : BOOLEAN, time : BOOLEAN, name : BOOLEAN, callstack : BOOLEAN,
            funcname : BOOLEAN, tid : BOOLEAN]

(* The defaults of TuiBaseApp.__init__. *)
DefaultToggles ==
    [level |-> TRUE, time |-> TRUE, name |-> TRUE, callstack |-> FALSE,
     funcname |-> FALSE, tid |-> FALSE]

Hooks == [initialize : BOOLEAN, cleanup : BOOLEAN]

(* No RichLogHandler exists before on_mount builds one. *)
NoHandler ==
    [level |-> 0, filters |-> <<>>, formatter |-> <<>>,
     show_time |-> FALSE, show_level |-> FALSE, show_path |-> FALSE]

Constructed(toggles, hookset) ==
    /\ show \in toggles
    /\ hooks \in hookset
    /\ pc = "constructed"
    /\ root_handlers \in {<<>>, <<"stderr">>}
    /\ handler = NoHandler
    /\ log_level = <<INFO>>
    /\ registry = UnconfiguredLevels
    /\ requested = set_log_levels(<<INFO>>, WARNING)
    /\ scrollback = <<>>
    /\ emitted = <<>>
    /\ auto_scroll = TRUE
    /\ scroll_y = 0
    /\ last_scroll = "none"
    /\ init_calls = 0
    /\ cleanup_calls = 0

Init == Constructed(Toggles, Hooks)

(* A subclass with the default toggles and no hooks. *)
InitDefault ==
    Constructed({DefaultToggles}, {[initialize |-> FALSE, cleanup |-> FALSE]})

--------------------------------------------------------------------------
(* on_mount, statement by statement: records logged by other threads may arrive
   between any two of them. *)

(* Line 105: the root logger's handler list is replaced by a new RichLogHandler. *)
Mount105 ==
    /\ pc = "constructed"
    /\ root_handlers' = <<"richlog">>
    /\ handler' = RichLogHandler(INFO)
    /\ pc' = "m105"
    /\ UNCHANGED <<show, hooks, log_level, registry, requested, scrollback, emitted,
                   auto_scroll, scroll_y, last_scroll, init_calls, cleanup_calls>>

AddFilter(from, to, wanted, f) ==
    /\ pc = from
    /\ handler' = IF wanted THEN [handler EXCEPT !.filters = Append(@, f)] ELSE handler
    /\ pc' = to
    /\ UNCHANGED <<show, hooks, root_handlers, log_level, registry, requested,
                   scrollback, emitted, auto_scroll, scroll_y, last_scroll, init_calls,
                   cleanup_calls>>

(* Lines 110-112. *)
Mount112 == AddFilter("m105", "m112", show.callstack, "callstack_filter")

(* Lines 113-115. *)
Mount115 == AddFilter("m112", "m115", show.tid, "thread_id_filter")

(* Line 116. *)
Mount116 == AddFilter("m115", "m116", TRUE, "markup_escape_filter")

(* Line 117. *)
Mount117 == AddFilter("m116", "m117", TRUE, "logger_name_filter")

(* Lines 118-125. *)
Mount118 ==
    /\ pc = "m117"
    /\ handler' = [handler EXCEPT !.formatter = LogFormat]
    /\ pc' = "m118"
    /\ UNCHANGED <<show, hooks, root_handlers, log_level, registry, requested,
                   scrollback, emitted, auto_scroll, scroll_y, last_scroll, init_calls,
                   cleanup_calls>>

(* TuiBaseApp.set_log_levels, lines 142-147: the helper is called and the levels,
   not others_level, are kept in self._log_level. *)
TuiSetLogLevels(levels, others_level) ==
    /\ registry' = set_log_levels(levels, others_level)
    /\ log_level' = levels

(* Line 127: self.set_log_levels is called with the stored self._log_level and
   others_level left at its default. *)
Mount127 ==
    /\ pc = "m118"
    /\ TuiSetLogLevels(log_level, WARNING)
    /\ pc' = "m127"
    /\ UNCHANGED <<show, hooks, root_handlers, handler, requested, scrollback, emitted,
                   auto_scroll, scroll_y, last_scroll, init_calls, cleanup_calls>>

(* initialize() called one statement early, before the thresholds are applied. *)
InitializeEarly == pc = "m118"

(* Lines 129-130 are reached after line 127. *)
InitializeReady == pc = "m127"

(* Lines 129-130: initialize() runs if the subclass has it; on_mount returns. *)
Mount129 ==
    /\ InitializeReady
    /\ init_calls' = IF hooks.initialize THEN init_calls + 1 ELSE init_calls
    /\ pc' = "mounted"
    /\ UNCHANGED <<show, hooks, root_handlers, handler, log_level, registry, requested,
                   scrollback, emitted, auto_scroll, scroll_y, last_scroll,
                   cleanup_calls>>

(* execute, line 138: asyncio.run(self.run_async()) returns when the UI loop ends. *)
LoopExit ==
    /\ pc = "mounted"
    /\ pc' = "exited"
    /\ UNCHANGED <<show, hooks, root_handlers, handler, log_level, registry, requested,
                   scrollback, emitted, auto_scroll, scroll_y, last_scroll, init_calls,
                   cleanup_calls>>

(* execute, lines 139-140. *)
Cleanup139 ==
    /\ pc = "exited"
    /\ cleanup_calls' = IF hooks.cleanup THEN cleanup_calls + 1 ELSE cleanup_calls
    /\ pc' = "done"
    /\ UNCHANGED <<show, hooks, root_handlers, handler, log_level, registry, requested,
                   scrollback, emitted, auto_scroll, scroll_y, last_scroll, init_calls>>

(* A call of TuiBaseApp.set_log_levels by the application: before execute, or from
   the UI thread once mounted. *)
SetLogLevels(levels, others_level) ==
    /\ pc \in {"constructed", "mounted"}
    /\ TuiSetLogLevels(levels, others_level)
    /\ requested' = set_log_levels(levels, others_level)
    /\ UNCHANGED <<show, hooks, pc, root_handlers, handler, scrollback, emitted,
                   auto_scroll, scroll_y, last_scroll, init_calls, cleanup_calls>>

AfterMount == pc \in {"mounted", "exited", "done"}

(* A logging call of any thread while the adapter is installed and the UI runs.
   RichLog.write appends the line and scrolls to the end when auto_scroll is set. *)
Log(rec) ==
    /\ Len(emitted) < MaxRecords
    /\ pc \in {"m105", "m112", "m115", "m116", "m117", "m118", "m127", "mounted"}
    /\ LET res == Dispatch(registry, root_handlers, handler, rec)
           n == Len(emitted) + 1
           lines == scrollback \o [i \in 1..Len(res.line) |-> [res.line[i] EXCEPT !.src = n]]
       IN  /\ emitted' = Append(emitted, [rec |-> rec, after_mount |-> AfterMount,
                                          threshold |-> requested[rec.name],
                                          outcome |-> res.outcome,
                                          args |-> res.args])
           /\ scrollback' = lines
           /\ scroll_y' = IF res.outcome = "written" /\ auto_scroll
                          THEN max_scroll_y(Len(lines)) ELSE scroll_y
    /\ UNCHANGED <<show, hooks, pc, root_handlers, handler, log_level, registry,
                   requested, auto_scroll, last_scroll, init_calls, cleanup_calls>>

(* A ScrollTo message from the scrollbar. textual runs the handlers of a message from
   the most derived class to the base class: LockingRichLog.on_scroll_to reads
   is_vertical_scroll_end first, then Widget._on_scroll_to moves the view to y. *)
ScrollTo(y) ==
    /\ pc = "mounted"
    /\ auto_scroll' = is_vertical_scroll_end
    /\ scroll_y' = Clamp(y, Len(scrollback))
    /\ last_scroll' = IF Clamp(y, Len(scrollback)) = max_scroll_y(Len(scrollback))
                      THEN "end" ELSE "away"
    /\ UNCHANGED <<show, hooks, pc, root_handlers, handler, log_level, registry,
                   requested, scrollback, emitted, init_calls, cleanup_calls>>

OnMount ==
    \/ Mount105
    \/ Mount112
    \/ Mount115
    \/ Mount116
    \/ Mount117
    \/ Mount118
    \/ Mount127
    \/ Mount129

Execute == OnMount \/ LoopExit \/ Cleanup139

--------------------------------------------------------------------------
(* Inputs *)

Hello == Str(<<"x">>)

(* Plain records: the message hello, no args. *)
PlainRecords == {Record("app", INFO, Hello, NoArgs), Record("lib", WARNING, Hello, NoArgs)}

(* Records of every logger and severity, with no args or with a mapping served by a
   named placeholder. *)
LevelRecords ==
    {Record(n, l, Hello, NoArgs) : n \in Loggers, l \in {DEBUG, INFO, WARNING}}
    \cup {Record(n, l, Str(<<"x", "N">>), MappingArgs(<<Str(<<"x">>)>>, <<Int7>>)) :
            n \in Loggers, l \in {DEBUG, INFO, WARNING}}

Texts == UNION {[1..k -> {"x", "B", "T"}] : k \in 0..MaxStrLen}

(* Records whose msg and args carry every short text: no args, one positional
   argument (a string or an int), or a msg that is no string. *)
EscapeRecords ==
    {Record("app", WARNING, Str(t), NoArgs) : t \in Texts}
    \cup {Record("app", WARNING, Str(t \o <<"P">>), TupleArgs(<<Str(a)>>)) :
            t \in Texts, a \in Texts}
    \cup {Record("app", WARNING, Str(t \o <<"P">>), TupleArgs(<<Int7>>)) : t \in Texts}
    \cup {Record("app", WARNING, Obj, NoArgs)}

--------------------------------------------------------------------------
(* Specifications *)

(* Every toggle and hook configuration, plain records. *)
Next == Execute \/ \E rec \in PlainRecords : Log(rec)

Spec == Init /\ [][Next]_vars

(* Default toggles, every threshold configuration. *)
NextLevels ==
    \/ Execute
    \/ \E l \in Levels, o \in Levels : SetLogLevels(<<l>>, o)
    \/ \E rec \in LevelRecords : Log(rec)

SpecLevels == InitDefault /\ [][NextLevels]_vars

(* Default toggles, records with markup in msg and args. *)
NextEscape == Execute \/ \E rec \in EscapeRecords : Log(rec)

SpecEscape == InitDefault /\ [][NextEscape]_vars

(* Default toggles, plain records and scroll events. *)
NextScroll ==
    \/ Execute
    \/ \E rec \in PlainRecords : Log(rec)
    \/ \E y \in 0..MaxRecords : ScrollTo(y)

SpecScroll == InitDefault /\ [][NextScroll]_vars

--------------------------------------------------------------------------
(* Properties *)

Written(i) == emitted[i].outcome = "written"

LinesOf(i) == {j \in 1..Len(scrollback) : scrollback[j].src = i}

(* C1: every record emitted after on_mount whose severity reaches the threshold
   configured for its logger appends exactly one line, and the lines stand in the
   order of emission. *)
C1_ShownInOrder ==
    /\ \A i \in 1..Len(emitted) :
         (emitted[i].after_mount /\ emitted[i].rec.levelno >= emitted[i].threshold)
         => Cardinality(LinesOf(i)) = 1
    /\ \A j, k \in 1..Len(scrollback) : j < k => scrollback[j].src < scrollback[k].src

(* C2: no record emitted after on_mount whose severity is below the threshold
   configured for its logger appends a line. *)
C2_BelowThresholdSilent ==
    \A i \in 1..Len(emitted) :
        (emitted[i].after_mount /\ emitted[i].rec.levelno < emitted[i].threshold)
        => LinesOf(i) = {}

(* C3: once a scroll event has happened, auto_scroll is true exactly when the most
   recent scroll event left the view at the end of the content. *)
C3_FlagFollowsLastScroll ==
    last_scroll # "none" => (auto_scroll <=> last_scroll = "end")

ArgsPreserved(a, b) ==
    /\ b.kind = a.kind
    /\ Len(b.items) = Len(a.items)
    /\ \A i \in 1..Len(a.items) : a.items[i].t # "str" => b.items[i] = a.items[i]

(* C4: no line of a record handled after on_mount shows user text as a styling
   directive, and the record keeps the number and order of its args, the non-string
   ones unchanged. *)
C4_EscapedAndArgsKept ==
    \A i \in 1..Len(emitted) : emitted[i].after_mount =>
        /\ \A j \in LinesOf(i) : ~HasUserDirective(scrollback[j].markup)
        /\ ArgsPreserved(emitted[i].rec.args, emitted[i].args)

Has(fields, f) == \E i \in 1..Len(fields) : fields[i] = f

(* C5: the format string holds a toggle's field exactly when the toggle is on. *)
C5_FieldIffToggle ==
    handler.formatter # <<>> =>
        /\ Has(handler.formatter, "asctime") <=> show.time
        /\ Has(handler.formatter, "name") <=> show.name
        /\ Has(handler.formatter, "callstack") <=> show.callstack
        /\ Has(handler.formatter, "funcName") <=> show.funcname
        /\ Has(handler.formatter, "posixTID") <=> show.tid

(* What a line shows: its columns, the message column being the formatted fields. *)
RECURSIVE Content(_, _)
Content(line, i) ==
    IF i > Len(line.columns) THEN <<>>
    ELSE (IF line.columns[i] = "message" THEN line.fmt ELSE <<line.columns[i]>>)
         \o Content(line, i + 1)

AllTogglesOff == \A f \in DOMAIN show : ~show[f]

(* C6: with every toggle off, an INFO record "hello" emitted after mount appends a
   line that shows the timestamp and the message and nothing else. *)
C6_OnlyTimeAndMessage ==
    \A i \in 1..Len(emitted) :
        (AllTogglesOff /\ emitted[i].after_mount
         /\ emitted[i].rec = Record("app", INFO, Hello, NoArgs))
        => \E j \in LinesOf(i) : Content(scrollback[j], 1) = <<"asctime", "message">>

(* C7: initialize runs at most once, only if defined and only once on_mount has made
   the adapter the sole root handler, attached the filters, set the formatter and
   applied the thresholds; cleanup runs at most once, only if defined and only after
   the UI loop has ended. *)
C7_HookOrder ==
    [][/\ init_calls' # init_calls =>
            /\ init_calls = 0 /\ init_calls' = 1
            /\ hooks.initialize
            /\ root_handlers = <<"richlog">>
            /\ handler.filters = InstalledFilters
            /\ handler.formatter = LogFormat
            /\ registry = set_log_levels(log_level, WARNING)
       /\ cleanup_calls' # cleanup_calls =>
            /\ cleanup_calls = 0 /\ cleanup_calls' = 1
            /\ hooks.cleanup
            /\ pc = "exited"]_vars

(* Both hooks are defined and both have run. *)
C7_BothHooksRan == init_calls = 1 /\ cleanup_calls = 1 /\ pc = "done"

FilterOf(field) ==
    CASE field = "callstack" -> {"callstack_filter"}
      [] field = "posixTID" -> {"thread_id_filter"}
      [] OTHER -> {}

Range(seq) == {seq[i] : i \in 1..Len(seq)}

(* The filters of seq stand in the order of FilterNames. *)
InInstallOrder(seq) ==
    \A i, j \in 1..Len(seq) : i < j =>
        \E a, b \in 1..Len(FilterNames) : a < b /\ FilterNames[a] = seq[i] /\ FilterNames[b] = seq[j]

(* C8: once on_mount is through, the format string names a filter-provided field only
   if its filter is installed, the filters stand in installation order, and every
   record handled from then on went through them before it was formatted, so that no
   formatting fails. *)
C8_FiltersFeedFormat ==
    AfterMount =>
        /\ \A i \in 1..Len(handler.formatter) :
               FilterOf(handler.formatter[i]) \subseteq Range(handler.filters)
        /\ InInstallOrder(handler.filters)
        /\ {"markup_escape_filter", "logger_name_filter"} \subseteq Range(handler.filters)
        /\ \A i \in 1..Len(emitted) : emitted[i].after_mount =>
               /\ emitted[i].outcome # "missing_field"
               /\ \A j \in LinesOf(i) : scrollback[j].passed = handler.filters

(* Both injecting filters are installed and a record was written after mount. *)
C8_CallstackShown ==
    /\ show.callstack /\ show.tid
    /\ \E i \in 1..Len(emitted) : emitted[i].after_mount /\ Written(i)

(* C9: after on_mount the thresholds in effect are the ones last requested, for the
   shown loggers and for the others. *)
C9_RequestedInEffect ==
    pc \in {"m127", "mounted", "exited", "done"} => registry = requested

(* C10: every line was formatted with the configured format string after the record
   passed all the filters on_mount installs. *)
C10_LinesFullyConfigured ==
    \A j \in 1..Len(scrollback) :
        scrollback[j].fmt = LogFormat /\ scrollback[j].passed = InstalledFilters

====
